---- MODULE Spec2Model ----
(***************************************************************************)
(* Deep-Claude reasoning chain (src/main/main.py): the interactive loop of *)
(* main(), the first-stage invoker call_openrouter_api() with its marker   *)
(* extraction, the second-stage call, compare_responses() and              *)
(* check_agreement().                                                      *)
(*                                                                         *)
(* Texts are TLA+ strings.  A value decoded from the child's JSON payload  *)
(* may be a Python str, int or None, so first-stage values are records     *)
(* [type, val].  The child's standard output is a sequence of tokens, each *)
(* standing for a run of characters:                                       *)
(*   "S"  the start sentinel  === DEEPSEEK RESULT ===                      *)
(*   "E"  the end sentinel    === END DEEPSEEK RESULT ===                  *)
(*   "d"  diagnostic text (not whitespace, not JSON)                       *)
(*   "w"  whitespace                                                       *)
(*   "{" "}" ","   JSON punctuation                                        *)
(*   "ka" "kr" "ko"  the member names "answer": "reasoning": "other":      *)
(*   "sa" "sr" "se"  JSON strings "4", "Addition of two and two.", ""      *)
(*   "sE"  a JSON string whose text quotes the end sentinel                *)
(*   "n"  the JSON number 4        "z"  the JSON literal null              *)
(*   "cut" the head of a JSON string cut off before its closing quote      *)
(* The terminal renders every text it is given; rendering a value that is  *)
(* not a str raises (print_section calls content.split).  An interrupt     *)
(* (Ctrl-C) is modelled where the program waits for the user, at input();  *)
(* interrupts during a pipeline are left out.                              *)
(***************************************************************************)
EXTENDS Integers, Sequences, FiniteSets, TLC

(* ---------------- bounds ---------------- *)
\* loop iterations that read a question or command
MaxIter == 2

(* ---------------- Python values ---------------- *)
PyStr(s) == [type |-> "str", val |-> s]
PyInt(s) == [type |-> "int", val |-> s]
PyNone == [type |-> "NoneType", val |-> "None"]

\* main.py:144, the pair returned by the except clause of call_openrouter_api
ErrAnswer == "[Error getting answer]"
ErrReasoning == "[Error getting reasoning]"
Placeholder == [answer |-> PyStr(ErrAnswer), reasoning |-> PyStr(ErrReasoning)]

(* ---------------- sequences ---------------- *)
\* Python slice s[a:b] with 0-based a, b already clamped to 0..len(s)
Slice(s, a, b) == IF b <= a THEN <<>> ELSE SubSeq(s, a + 1, b)

\* str.find: 0-based index of the first position whose token is in set, or -1
Find(s, set) ==
  IF \E i \in 1..Len(s) : s[i] \in set
  THEN (CHOOSE i \in 1..Len(s) : s[i] \in set /\ \A j \in 1..(i - 1) : s[j] \notin set) - 1
  ELSE -1

\* str.strip: drop leading and trailing whitespace
RECURSIVE LStrip(_)
LStrip(s) == IF s # <<>> /\ Head(s) = "w" THEN LStrip(Tail(s)) ELSE s
RECURSIVE RStrip(_)
RStrip(s) == IF s # <<>> /\ s[Len(s)] = "w" THEN RStrip(SubSeq(s, 1, Len(s) - 1)) ELSE s
Strip(s) == RStrip(LStrip(s))

(* ---------------- json.loads on tokens ---------------- *)
JsonKeys == {"ka", "kr", "ko"}
JsonValues == {"sa", "sr", "se", "sE", "n", "z"}
KeyName(k) == CASE k = "ka" -> "answer" [] k = "kr" -> "reasoning" [] OTHER -> "other"
ValueOf(v) ==
  CASE v = "sa" -> PyStr("4")
    [] v = "sr" -> PyStr("Addition of two and two.")
    [] v = "se" -> PyStr("")
    [] v = "sE" -> PyStr("ends with === END DEEPSEEK RESULT ===")
    [] v = "n" -> PyInt("4")
    [] OTHER -> PyNone

\* whitespace between JSON tokens is insignificant
NoWs(s) == SelectSeq(s, LAMBDA t : t # "w")

\* a dict is a function from member names to values
EmptyDict == [k \in {} |-> PyNone]
DictSet(d, k, v) == [x \in (DOMAIN d) \cup {k} |-> IF x = k THEN v ELSE d[x]]

\* members  key value ("," key value)*  ; a repeated name keeps the last value
RECURSIVE ParseMembers(_, _)
ParseMembers(s, d) ==
  IF Len(s) < 2 \/ s[1] \notin JsonKeys \/ s[2] \notin JsonValues
  THEN [ok |-> FALSE, dict |-> EmptyDict]
  ELSE LET d2 == DictSet(d, KeyName(s[1]), ValueOf(s[2]))
       IN  IF Len(s) = 2 THEN [ok |-> TRUE, dict |-> d2]
           ELSE IF s[3] = "," THEN ParseMembers(SubSeq(s, 4, Len(s)), d2)
           ELSE [ok |-> FALSE, dict |-> EmptyDict]

\* json.loads: kind "dict", "scalar" (any other JSON value) or "error"
\* (json.JSONDecodeError)
json_loads(json_str) ==
  LET s == NoWs(json_str)
  IN  IF Len(s) = 1 /\ s[1] \in JsonValues
      THEN [kind |-> "scalar", dict |-> EmptyDict]
      ELSE IF Len(s) >= 2 /\ s[1] = "{" /\ s[Len(s)] = "}"
      THEN IF Len(s) = 2 THEN [kind |-> "dict", dict |-> EmptyDict]
           ELSE LET m == ParseMembers(SubSeq(s, 2, Len(s) - 1), EmptyDict)
                IN  IF m.ok THEN [kind |-> "dict", dict |-> m.dict]
                    ELSE [kind |-> "error", dict |-> EmptyDict]
      ELSE [kind |-> "error", dict |-> EmptyDict]

(* ---------------- marker extraction, main.py:121-138 ---------------- *)
\* tokens in which output.find(start_marker) / output.find(end_marker) match
HasStartMarker == {"S"}
HasEndMarker == {"E", "sE"}

\* output[start_idx + len(start_marker):end_idx]; when the end sentinel is
\* found inside a JSON string the slice ends inside that string
JsonStr(output, start_idx, end_idx) ==
  LET body == Slice(output, start_idx + 1, end_idx)
  IN  IF end_idx > start_idx /\ output[end_idx + 1] = "sE"
      THEN body \o <<"cut">> ELSE body

(* ---------------- texts as characters ---------------- *)
\* the characters of each text that is lower-cased, compared or split
Chars(s) ==
  CASE s = "exit" -> <<"e", "x", "i", "t">>
    [] s = "quit" -> <<"q", "u", "i", "t">>
    [] s = "QUIT" -> <<"Q", "U", "I", "T">>
    [] s = "history" -> <<"h", "i", "s", "t", "o", "r", "y">>
    [] s = "" -> <<>>
    [] s = "What is 2+2?" -> <<"W", "h", "a", "t", " ", "i", "s", " ", "2", "+", "2", "?">>
    [] s = "4" -> <<"4">>
    [] s = "The answer is 4." -> <<"T", "h", "e", " ", "a", "n", "s", "w", "e", "r", " ", "i", "s", " ", "4", ".">>
    [] s = "[Error getting answer]" -> <<"[", "E", "r", "r", "o", "r", " ", "g", "e", "t", "t", "i", "n", "g", " ", "a", "n", "s", "w", "e", "r", "]">>

\* str.lower, one character
LowerChar(c) ==
  CASE c = "E" -> "e" [] c = "I" -> "i" [] c = "Q" -> "q" [] c = "T" -> "t"
    [] c = "U" -> "u" [] c = "W" -> "w" [] OTHER -> c
Lower(cs) == [i \in 1..Len(cs) |-> LowerChar(cs[i])]

\* str.split('.')[0]: the text before the first period
FirstSentence(cs) ==
  LET i == Find(cs, {"."}) IN IF i = -1 THEN cs ELSE Slice(cs, 0, i)

(* ---------------- fuzz.ratio (fuzzywuzzy over difflib) ---------------- *)
\* length of the common run of a from i and b from j
RECURSIVE CommonLen(_, _, _, _)
CommonLen(a, b, i, j) ==
  IF i > Len(a) \/ j > Len(b) \/ a[i] # b[j] THEN 0
  ELSE 1 + CommonLen(a, b, i + 1, j + 1)

\* SequenceMatcher.find_longest_match: the longest common block, the one
\* starting earliest in a and then earliest in b
LongestMatch(a, b) ==
  LET P == (1..Len(a)) \X (1..Len(b))
      lens == {CommonLen(a, b, p[1], p[2]) : p \in P}
      k == CHOOSE n \in lens : \A m \in lens : m <= n
      best == CHOOSE p \in P :
                /\ CommonLen(a, b, p[1], p[2]) = k
                /\ \A q \in P :
                     CommonLen(a, b, q[1], q[2]) = k
                       => (p[1] < q[1] \/ (p[1] = q[1] /\ p[2] <= q[2]))
  IN  [i |-> best[1], j |-> best[2], k |-> k]

\* SequenceMatcher.get_matching_blocks: total size of the matching blocks
RECURSIVE Matches(_, _)
Matches(a, b) ==
  IF a = <<>> \/ b = <<>> THEN 0
  ELSE LET m == LongestMatch(a, b)
       IN  IF m.k = 0 THEN 0
           ELSE m.k + Matches(SubSeq(a, 1, m.i - 1), SubSeq(b, 1, m.j - 1))
                    + Matches(SubSeq(a, m.i + m.k, Len(a)), SubSeq(b, m.j + m.k, Len(b)))

\* fuzz.partial_ratio in place of fuzz.ratio: the best match of the shorter
\* text inside the longer one
FuzzRatio_partial(a, b) ==
  IF a = <<>> \/ b = <<>> THEN 0
  ELSE LET short == IF Len(a) <= Len(b) THEN Len(a) ELSE Len(b)
       IN  (100 * LongestMatch(a, b).k) \div short

\* int(round(100 * 2.0 * M / T)), round half to even; 0 for an empty string
FuzzRatio(a, b) ==
  IF a = <<>> \/ b = <<>> THEN 0
  ELSE LET T == Len(a) + Len(b)
           n == 200 * Matches(a, b)
           q == n \div T
           r == n % T
       IN  IF 2 * r > T \/ (2 * r = T /\ q % 2 = 1) THEN q + 1 ELSE q

\* config.agreement_threshold, in hundredths (main.py:41, main.py:146)
AgreementThreshold == 70

\* main.py:146-159
check_agreement(deepseek, claude) ==
  FuzzRatio(FirstSentence(Lower(Chars(deepseek))), FirstSentence(Lower(Chars(claude))))
    > AgreementThreshold

(* ---------------- exceptions ---------------- *)
NoExc == [type |-> "none", msg |-> ""]
\* main.py:89
IntegrationMissing ==
  [type |-> "Exception", msg |-> "Compiled JavaScript file not found at dist/openrouter.js. Did you run 'npm run build'?"]
\* main.py:119
ChildProcessFailed == [type |-> "Exception", msg |-> "TypeScript process failed with code 1: "]
\* main.py:131
MarkerNotFound == [type |-> "Exception", msg |-> "Could not find result markers in output"]
\* main.py:134, json.loads on text that is not JSON
JSONDecodeError == [type |-> "JSONDecodeError", msg |-> "Expecting value"]
\* main.py:138, result['answer'] on a dict without the member
KeyError(k) == [type |-> "KeyError", msg |-> k]
\* main.py:138, result['answer'] on a decoded value that is not a dict
TypeError == [type |-> "TypeError", msg |-> "object is not subscriptable"]
\* main.py:70, content.split on a value that is not a str
AttributeError == [type |-> "AttributeError", msg |-> "object has no attribute 'split'"]
\* main.py:267 and main.py:194, faults of a provider call
UpstreamTimeout == [type |-> "APITimeoutError", msg |-> "Request timed out."]
UpstreamError == [type |-> "APIConnectionError", msg |-> "Connection error."]
\* main.py:275, content[0] of a response without content blocks
IndexError == [type |-> "IndexError", msg |-> "list index out of range"]
\* main.py:226, input() at end of input
EOFError == [type |-> "EOFError", msg |-> "EOF when reading a line"]
\* raised by input() on Ctrl-C; a BaseException that is no Exception
KeyboardInterrupt == [type |-> "KeyboardInterrupt", msg |-> ""]

(* ---------------- call_openrouter_api, main.py:121-144 ---------------- *)
\* the except clause returning None for both fields
ExceptReturn_none(e) == [exc |-> e, ret |-> [answer |-> PyNone, reasoning |-> PyNone]]

\* main.py:140-144: the value the except clause returns
ExceptReturn(e) == [exc |-> e, ret |-> Placeholder]

\* a return that fills each missing member with its placeholder
ReturnResult_partial(result) ==
  IF result.kind = "scalar" THEN [exc |-> TypeError, ret |-> Placeholder]
  ELSE [exc |-> IF {"answer", "reasoning"} \subseteq DOMAIN result.dict THEN NoExc
                ELSE KeyError("'answer'"),
        ret |-> [answer |-> IF "answer" \in DOMAIN result.dict
                            THEN result.dict["answer"] ELSE Placeholder.answer,
                 reasoning |-> IF "reasoning" \in DOMAIN result.dict
                               THEN result.dict["reasoning"] ELSE Placeholder.reasoning]]

\* main.py:138: the return statement; result['answer'] is evaluated first
ReturnResult(result) ==
  IF result.kind = "scalar" THEN ExceptReturn(TypeError)
  ELSE IF "answer" \notin DOMAIN result.dict THEN ExceptReturn(KeyError("'answer'"))
  ELSE IF "reasoning" \notin DOMAIN result.dict THEN ExceptReturn(KeyError("'reasoning'"))
  ELSE [exc |-> NoExc,
        ret |-> [answer |-> result.dict["answer"], reasoning |-> result.dict["reasoning"]]]

\* the marker test with "and" in place of "or"
Extract_and(output) ==
  LET start_idx == Find(output, HasStartMarker)
      end_idx == Find(output, HasEndMarker)
  IN  IF start_idx = -1 /\ end_idx = -1 THEN ExceptReturn(MarkerNotFound)
      ELSE LET result == json_loads(Strip(JsonStr(output, start_idx, end_idx)))
           IN  IF result.kind = "error" THEN ExceptReturn(JSONDecodeError)
               ELSE ReturnResult(result)

\* main.py:121-138: what the call returns for a child that exited with status 0
Extract(output) ==
  LET start_idx == Find(output, HasStartMarker)
      end_idx == Find(output, HasEndMarker)
  IN  IF start_idx = -1 \/ end_idx = -1 THEN ExceptReturn(MarkerNotFound)
      ELSE LET result == json_loads(Strip(JsonStr(output, start_idx, end_idx)))
           IN  IF result.kind = "error" THEN ExceptReturn(JSONDecodeError)
               ELSE ReturnResult(result)

(* ---------------- inputs ---------------- *)
\* what the child's standard output holds between or instead of the markers
Payloads ==
  { <<"{", "ka", "sa", ",", "kr", "sr", "}">>,
    <<"{", "w", "kr", "sr", ",", "w", "ka", "sa", "w", "}">>,
    <<"{", "ka", "se", ",", "kr", "sr", "}">>,
    <<"{", "ka", "n", ",", "kr", "z", "}">>,
    <<"{", "ka", "z", ",", "kr", "sr", "}">>,
    <<"{", "ka", "sa", ",", "kr", "sE", "}">>,
    <<"{", "ka", "sa", "}">>,
    <<"{", "kr", "sr", "}">>,
    <<"{", "}">>,
    <<"{", "ka", "sa", ",", "kr">>,
    <<"n">>,
    <<>> }

\* the text before and after the payload: <<before, after>>
Frames ==
  { << <<"d", "w", "S", "w">>, <<"w", "E", "w", "d">> >>,
    << <<"S">>, <<"E">> >>,
    << <<"d", "w">>, <<"w", "E", "w">> >>,
    << <<"d", "w", "S", "w">>, <<"w", "d">> >>,
    << <<"d">>, <<"d">> >>,
    << <<"d", "E", "w", "S", "w">>, <<"w", "E", "w">> >> }

Outputs == {f[1] \o p \o f[2] : f \in Frames, p \in Payloads}

\* standard output of a child that exits with a non-zero status
FailedOutputs == {<<"d">>, <<"S", "{", "ka", "sa", ",", "kr", "sr", "}", "E">>}

\* lines read from standard input
Inputs == {"What is 2+2?", "", "exit", "QUIT", "history"}

\* sys.argv[1:] at startup
Argvs == {<<>>, <<"What is 2+2?">>, <<"exit">>}

\* content blocks of a second-stage response (the text of each)
ClaudeContents == {<<>>, <<"The answer is 4.">>, <<"4">>}

\* text of a comparison response
HaikuTexts == {"Both answers agree."}

\* " ".join(words)
RECURSIVE Join(_)
Join(words) ==
  IF words = <<>> THEN ""
  ELSE IF Len(words) = 1 THEN words[1]
  ELSE words[1] \o " " \o Join(Tail(words))

(* ---------------- state ---------------- *)
NoText == "<unbound>"
Unbound == [type |-> "unbound", val |-> NoText]
NoResult == [answer |-> Unbound, reasoning |-> Unbound]

VARIABLES
  pc,                    \* position of main() / call_openrouter_api()
  argv,                  \* sys.argv[1:]
  conversation_history,  \* main.py:216
  question, deepseek_answer, deepseek_reasoning, final_answer, analysis,
  spinner,               \* whether main's local spinner is bound (main.py:263)
  caught,                \* the exception the handler at main.py:308 holds
  returncode, stdout,    \* process.returncode, process.stdout (main.py:108)
  exc, ret,              \* call_openrouter_api: exception caught, value returned
  inflight,              \* calls to the outside that have not returned
  claude_request, haiku_request,
  iter,                  \* loop iterations begun
  trace,                 \* stages the current iteration has entered
  shown,                 \* <<section, text>> displayed by the current iteration
  raised,                \* faults raised in the current iteration, with their step
  got,                   \* what the providers returned in the current iteration
  hist0,                 \* conversation_history when the iteration began
  asked,                 \* one record per iteration that ran to the end of the try body
  spawned,               \* child processes launched by the current iteration
  runs,                  \* per recorded question: what went in, what was sent and recorded
  input                  \* where the current iteration's line came from, and the line

locals == <<question, deepseek_answer, deepseek_reasoning, final_answer, analysis, spinner>>
invoker == <<returncode, stdout, exc, ret>>
requests == <<claude_request, haiku_request>>
ghosts == <<trace, shown, raised, got, hist0, asked, spawned, runs, input>>
vars == <<pc, argv, conversation_history, locals, caught, invoker, inflight,
          requests, iter, ghosts>>

NoRequest == [question |-> NoText, deepseek |-> NoText, claude |-> NoText]
NoGot == [stage1 |-> NoResult, stage2 |-> <<>>]
NoInput == [from |-> "none", line |-> NoText]
\* the line of an iteration whose input() met the end of input
EndOfInput == "<EOF>"
\* the line of an iteration whose input() was interrupted
Interrupt == "<interrupt>"

Init ==
  /\ pc = "Idle"
  /\ argv \in Argvs
  /\ conversation_history = <<>>
  /\ question = NoText /\ deepseek_answer = Unbound /\ deepseek_reasoning = Unbound
  /\ final_answer = NoText /\ analysis = NoText /\ spinner = FALSE
  /\ caught = NoExc
  /\ returncode = -1 /\ stdout = <<>> /\ exc = NoExc /\ ret = NoResult
  /\ inflight = {}
  /\ claude_request = NoRequest /\ haiku_request = NoRequest
  /\ iter = 0
  /\ trace = <<>> /\ shown = {} /\ raised = {} /\ got = NoGot
  /\ hist0 = <<>> /\ asked = <<>> /\ spawned = 0
  /\ runs = <<>> /\ input = NoInput

(* ---------------- main loop: reading the question, main.py:219-238 ---------------- *)
\* a command set without exit and quit
Commands_history == {Chars("history")}

\* main.py:227 and 230: the lines that are commands, compared in lower case
Commands == {Chars("exit"), Chars("quit"), Chars("history")}

Fault(step, e) == [step |-> step, e |-> e]

\* main.py:234-238 and 80-83: the question is displayed and
\* call_openrouter_api(question) is entered
StartQuestion(q) ==
  /\ question' = q
  /\ shown' = {<<"Input", q>>}
  /\ trace' = <<"Stage1Invoked">>
  /\ raised' = {} /\ got' = NoGot /\ spawned' = 0
  /\ hist0' = conversation_history
  /\ iter' = iter + 1
  /\ pc' = "Stage1Invoked"
  /\ UNCHANGED <<conversation_history, deepseek_answer, deepseek_reasoning, final_answer,
                 analysis, spinner, caught, invoker, inflight, requests, asked, runs>>

\* a startup argument that is not cleared after use
ReadArgv_keep ==
  /\ pc = "Idle" /\ iter < MaxIter
  /\ Len(argv) > 0
  /\ argv' = argv
  /\ input' = [from |-> "argv", line |-> Join(argv)]
  /\ StartQuestion(Join(argv))

\* main.py:222-224: the startup argument is the question, without command recognition
ReadArgv ==
  /\ pc = "Idle" /\ iter < MaxIter
  /\ Len(argv) > 0
  /\ argv' = <<>>
  /\ input' = [from |-> "argv", line |-> Join(argv)]
  /\ StartQuestion(Join(argv))

\* main.py:226-235: a line that is no command
ReadQuestion ==
  /\ pc = "Idle" /\ iter < MaxIter
  /\ Len(argv) = 0
  /\ \E line \in Inputs :
       /\ Lower(Chars(line)) \notin Commands
       /\ input' = [from |-> "stdin", line |-> line]
       /\ StartQuestion(line)
  /\ UNCHANGED argv

\* main.py:227-229
ReadExit ==
  /\ pc = "Idle" /\ iter < MaxIter
  /\ Len(argv) = 0
  /\ \E line \in Inputs :
       /\ Lower(Chars(line)) \in {Chars("exit"), Chars("quit")}
       /\ input' = [from |-> "stdin", line |-> line]
  /\ shown' = {<<"Goodbye", "">>}
  /\ trace' = <<>> /\ raised' = {} /\ got' = NoGot /\ spawned' = 0
  /\ hist0' = conversation_history
  /\ iter' = iter + 1
  /\ pc' = "Exited"
  /\ UNCHANGED <<argv, conversation_history, locals, caught, invoker, inflight, requests,
                 asked, runs>>

\* a display of the header alone
print_conversation_history_header(history) == {<<"Conversation History", "">>}

\* main.py:161-172: the header, then one numbered section per entry
print_conversation_history(history) ==
  {<<"Conversation History", "">>} \cup
  {<<"Session " \o ToString(i),
     "Question: " \o history[i].question \o "\nDeepSeek Answer: " \o
     history[i].deepseek.answer.val \o "\nClaude Answer: " \o history[i].claude>> :
   i \in 1..Len(history)}

\* main.py:230-232
ReadHistory ==
  /\ pc = "Idle" /\ iter < MaxIter
  /\ Len(argv) = 0
  /\ \E line \in Inputs :
       /\ Lower(Chars(line)) = Chars("history")
       /\ input' = [from |-> "stdin", line |-> line]
  /\ shown' = print_conversation_history(conversation_history)
  /\ trace' = <<>> /\ raised' = {} /\ got' = NoGot /\ spawned' = 0
  /\ hist0' = conversation_history
  /\ iter' = iter + 1
  /\ pc' = "Idle"
  /\ UNCHANGED <<argv, conversation_history, locals, caught, invoker, inflight, requests,
                 asked, runs>>

\* an end of input that leaves the loop
ReadEOF_ends ==
  /\ pc = "Idle" /\ iter < MaxIter
  /\ Len(argv) = 0
  /\ input' = [from |-> "stdin", line |-> EndOfInput]
  /\ shown' = {}
  /\ trace' = <<>> /\ raised' = {Fault("input", EOFError)} /\ got' = NoGot /\ spawned' = 0
  /\ hist0' = conversation_history
  /\ iter' = iter + 1
  /\ pc' = "Exited"
  /\ UNCHANGED <<argv, conversation_history, locals, caught, invoker, inflight, requests,
                 asked, runs>>

\* main.py:226: input() raises at end of input
ReadEOF ==
  /\ pc = "Idle" /\ iter < MaxIter
  /\ Len(argv) = 0
  /\ caught' = EOFError
  /\ input' = [from |-> "stdin", line |-> EndOfInput]
  /\ shown' = {}
  /\ trace' = <<>> /\ raised' = {Fault("input", EOFError)} /\ got' = NoGot /\ spawned' = 0
  /\ hist0' = conversation_history
  /\ iter' = iter + 1
  /\ pc' = "Handler"
  /\ UNCHANGED <<argv, conversation_history, locals, invoker, inflight, requests, asked, runs>>

\* main.py:226 and 308: input() raises KeyboardInterrupt, which except Exception
\* does not match: the fault leaves main() and the program ends
ReadInterrupt ==
  /\ pc = "Idle" /\ iter < MaxIter
  /\ Len(argv) = 0
  /\ input' = [from |-> "stdin", line |-> Interrupt]
  /\ shown' = {}
  /\ trace' = <<>> /\ raised' = {Fault("input", KeyboardInterrupt)} /\ got' = NoGot
  /\ spawned' = 0
  /\ hist0' = conversation_history
  /\ iter' = iter + 1
  /\ pc' = "Interrupted"
  /\ UNCHANGED <<argv, conversation_history, locals, caught, invoker, inflight, requests,
                 asked, runs>>

(* ---------------- call_openrouter_api, main.py:78-144 ---------------- *)
\* main.py:140-144: the except clause prints the fault and returns
InvokerReturns(r) ==
  /\ exc' = r.exc /\ ret' = r.ret
  /\ shown' = IF r.exc = NoExc THEN shown ELSE shown \cup {<<"Error details", r.exc.msg>>}
  /\ raised' = IF r.exc = NoExc THEN raised ELSE raised \cup {Fault("stage1", r.exc)}
  /\ pc' = "S1Return"

\* an existence check made after the launch
InvokerMissing_late ==
  /\ pc = "Stage1Invoked"
  /\ spawned' = spawned + 1
  /\ InvokerReturns(ExceptReturn(IntegrationMissing))
  /\ UNCHANGED <<argv, conversation_history, locals, caught, returncode, stdout, inflight,
                 requests, iter, trace, got, hist0, asked, runs, input>>

\* main.py:85-89: the compiled module is absent
InvokerMissing ==
  /\ pc = "Stage1Invoked"
  /\ InvokerReturns(ExceptReturn(IntegrationMissing))
  /\ UNCHANGED <<argv, conversation_history, locals, caught, returncode, stdout, inflight,
                 requests, iter, trace, got, hist0, asked, runs, input, spawned>>

\* main.py:91-115: the module exists and the child process is launched
InvokerSpawn ==
  /\ pc = "Stage1Invoked"
  /\ inflight' = inflight \cup {"child"}
  /\ spawned' = spawned + 1
  /\ pc' = "ChildRunning"
  /\ UNCHANGED <<argv, conversation_history, locals, caught, invoker, requests, iter,
                 trace, shown, raised, got, hist0, asked, runs, input>>

\* main.py:117-119: the child exits with a non-zero status
ChildFails ==
  /\ pc = "ChildRunning"
  /\ \E out \in FailedOutputs :
       /\ returncode' = 1 /\ stdout' = out
       /\ InvokerReturns(ExceptReturn(ChildProcessFailed))
  /\ inflight' = inflight \ {"child"}
  /\ UNCHANGED <<argv, conversation_history, locals, caught, requests, iter,
                 trace, got, hist0, asked, runs, input, spawned>>

\* main.py:121-144: the child exits with status 0 and its output is parsed
ChildExits ==
  /\ pc = "ChildRunning"
  /\ \E out \in Outputs :
       /\ returncode' = 0 /\ stdout' = out
       /\ InvokerReturns(Extract(out))
  /\ inflight' = inflight \ {"child"}
  /\ UNCHANGED <<argv, conversation_history, locals, caught, requests, iter,
                 trace, got, hist0, asked, runs, input, spawned>>

(* ---------------- main loop: the pipeline, main.py:238-312 ---------------- *)
\* main.py:67-72: print_section splits its content, which a non-str value lacks
CanRender(v) == v.type = "str"

\* a request that carries the first-stage answer in place of the reasoning
ClaudeRequest_answer(q, answer, reasoning) ==
  [question |-> q, deepseek |-> answer, claude |-> NoText]

\* main.py:246-259: the second-stage request is built from the question and the
\* first-stage reasoning
ClaudeRequest(q, answer, reasoning) ==
  [question |-> q, deepseek |-> reasoning, claude |-> NoText]

\* main.py:176-191: the comparison prompt holds the question and both answers
CompareRequest(q, deepseek, claude) ==
  [question |-> q, deepseek |-> deepseek, claude |-> claude]

\* an entry whose question carries the previous entry's question as context
HistoryEntry_context(q, answer, reasoning, claude) ==
  [question |-> IF conversation_history = <<>> THEN q
                ELSE conversation_history[Len(conversation_history)].question \o " " \o q,
   deepseek |-> [answer |-> answer, reasoning |-> reasoning], claude |-> claude]

\* main.py:284-288
HistoryEntry(q, answer, reasoning, claude) ==
  [question |-> q, deepseek |-> [answer |-> answer, reasoning |-> reasoning], claude |-> claude]

\* an insert at the front in place of the append
HistoryAppend_front(history, entry) == <<entry>> \o history

\* the append left out
HistoryAppend_dropped(history, entry) == history

\* main.py:284: list.append
HistoryAppend(history, entry) == Append(history, entry)

\* main.py:238: call_openrouter_api returns into main and its frame is gone
ReturnToMain ==
  /\ deepseek_answer' = ret.answer
  /\ deepseek_reasoning' = ret.reasoning
  /\ got' = [got EXCEPT !.stage1 = ret]
  /\ returncode' = -1 /\ stdout' = <<>> /\ exc' = NoExc /\ ret' = NoResult

\* main.py:238-242: a first-stage value that is not a str cannot be displayed
Stage1DisplayFault ==
  /\ pc = "S1Return"
  /\ ~(CanRender(ret.reasoning) /\ CanRender(ret.answer))
  /\ ReturnToMain
  /\ trace' = trace \o <<"Stage1Parsed">>
  /\ shown' = IF CanRender(ret.reasoning)
              THEN shown \cup {<<"Reasoning Process", ret.reasoning.val>>} ELSE shown
  /\ caught' = AttributeError
  /\ raised' = raised \cup {Fault("display", AttributeError)}
  /\ pc' = "Handler"
  /\ UNCHANGED <<argv, conversation_history, question, final_answer, analysis, spinner,
                 inflight, requests, iter, hist0, asked, runs, input, spawned>>

\* main.py:238-270: the first-stage result is displayed and the second-stage call issued
Stage2Invoke ==
  /\ pc = "S1Return"
  /\ CanRender(ret.reasoning) /\ CanRender(ret.answer)
  /\ ReturnToMain
  /\ claude_request' = ClaudeRequest(question, ret.answer.val, ret.reasoning.val)
  /\ shown' = shown \cup {<<"Reasoning Process", ret.reasoning.val>>,
                          <<"Initial Answer", ret.answer.val>>,
                          <<"Prompt", ret.reasoning.val>>}
  /\ spinner' = TRUE
  /\ inflight' = inflight \cup {"claude"}
  /\ trace' = trace \o <<"Stage1Parsed", "Stage2Invoked">>
  /\ pc' = "Stage2Invoked"
  /\ UNCHANGED <<argv, conversation_history, question, final_answer, analysis, caught,
                 haiku_request, iter, raised, hist0, asked, runs, input, spawned>>

\* a second-stage fault that records a placeholder entry before it is handled
ClaudeFails_records ==
  /\ pc = "Stage2Invoked"
  /\ \E e \in {UpstreamTimeout, UpstreamError} :
       /\ caught' = e
       /\ raised' = raised \cup {Fault("stage2", e)}
  /\ conversation_history' =
       Append(conversation_history,
              HistoryEntry(question, deepseek_answer, deepseek_reasoning, ErrAnswer))
  /\ inflight' = inflight \ {"claude"}
  /\ pc' = "Handler"
  /\ UNCHANGED <<argv, locals, invoker, requests, iter,
                 trace, shown, got, hist0, asked, runs, input, spawned>>

\* main.py:267-270: the second-stage call raises (timeout or transport fault)
ClaudeFails ==
  /\ pc = "Stage2Invoked"
  /\ \E e \in {UpstreamTimeout, UpstreamError} :
       /\ caught' = e
       /\ raised' = raised \cup {Fault("stage2", e)}
  /\ inflight' = inflight \ {"claude"}
  /\ pc' = "Handler"
  /\ UNCHANGED <<argv, conversation_history, locals, invoker, requests, iter,
                 trace, shown, got, hist0, asked, runs, input, spawned>>

\* main.py:267-275: the response has no content block, content[0] raises
ClaudeReturnsEmpty ==
  /\ pc = "Stage2Invoked"
  /\ inflight' = inflight \ {"claude"}
  /\ caught' = IndexError
  /\ raised' = raised \cup {Fault("stage2", IndexError)}
  /\ pc' = "Handler"
  /\ UNCHANGED <<argv, conversation_history, locals, invoker, requests, iter,
                 trace, shown, got, hist0, asked, runs, input, spawned>>

\* main.py:267-293: the answer is displayed and the HistoryEntry appended
ClaudeReturns ==
  /\ pc = "Stage2Invoked"
  /\ \E content \in ClaudeContents :
       /\ Len(content) > 0
       /\ got' = [got EXCEPT !.stage2 = content]
       /\ final_answer' = content[1]
       /\ shown' = shown \cup {<<"Response", content[1]>>,
                               <<"DeepSeek's Answer", deepseek_answer.val>>,
                               <<"Claude's Answer", content[1]>>,
                               <<"Performance", "">>}
       /\ conversation_history' =
            HistoryAppend(conversation_history,
                          HistoryEntry(question, deepseek_answer, deepseek_reasoning, content[1]))
       /\ runs' = Append(runs,
                         [question |-> question, stage1 |-> got.stage1, stage2 |-> content,
                          request |-> claude_request, compare |-> NoRequest,
                          entry |-> HistoryEntry(question, deepseek_answer, deepseek_reasoning,
                                                 content[1])])
  /\ inflight' = inflight \ {"claude"}
  /\ trace' = trace \o <<"Recorded">>
  /\ pc' = "Recorded"
  /\ UNCHANGED <<argv, question, deepseek_answer, deepseek_reasoning, analysis, spinner,
                 caught, invoker, requests, iter, raised, hist0, asked, input, spawned>>

\* main.py:295-299 and 176-202: the comparison call is issued
Compare ==
  /\ pc = "Recorded"
  /\ haiku_request' = CompareRequest(question, deepseek_answer.val, final_answer)
  /\ runs' = [runs EXCEPT ![Len(runs)].compare = haiku_request']
  /\ inflight' = inflight \cup {"haiku"}
  /\ trace' = trace \o <<"Compared">>
  /\ pc' = "Comparing"
  /\ UNCHANGED <<argv, conversation_history, locals, caught, invoker, claude_request, iter,
                 shown, raised, got, hist0, asked, input, spawned>>

\* main.py:300-306: the narrative is displayed, the lexical agreement is checked
\* and the try body ends
Finish(text) ==
  /\ analysis' = text
  /\ shown' = shown \cup {<<"Haiku's Comparison", text>>}
                    \cup (IF check_agreement(deepseek_answer.val, final_answer) THEN {}
                          ELSE {<<"Warning", "Models show significant divergence!">>})
  /\ asked' = Append(asked, HistoryEntry(question, got.stage1.answer, got.stage1.reasoning,
                                         got.stage2[1]))
  /\ inflight' = inflight \ {"haiku"}
  /\ pc' = "Idle"
  /\ UNCHANGED <<argv, conversation_history, question, deepseek_answer, deepseek_reasoning,
                 final_answer, spinner, caught, invoker, requests, iter, trace, got, hist0,
                 spawned, runs, input>>

\* main.py:203: the comparison provider answers
HaikuReturns ==
  /\ pc = "Comparing"
  /\ \E text \in HaikuTexts : Finish(text)
  /\ UNCHANGED raised

\* compare_responses without its except clause: the fault reaches main
HaikuFails_raise ==
  /\ pc = "Comparing"
  /\ \E e \in {UpstreamTimeout, UpstreamError} :
       /\ caught' = e
       /\ raised' = raised \cup {Fault("comparison", e)}
  /\ inflight' = inflight \ {"haiku"}
  /\ pc' = "Handler"
  /\ UNCHANGED <<argv, conversation_history, locals, invoker, requests, iter,
                 trace, shown, got, hist0, asked, runs, input, spawned>>

\* main.py:204-205: a fault of the comparison call becomes the narrative
HaikuFails ==
  /\ pc = "Comparing"
  /\ \E e \in {UpstreamTimeout, UpstreamError} :
       /\ Finish("Comparison failed: " \o e.msg)
       /\ raised' = raised \cup {Fault("comparison", e)}

\* a handler that displays nothing
HandlerShows_silent(e, bound) == {}

\* main.py:308-312: the fault is displayed and the loop continues
HandlerShows(e, bound) ==
  (IF bound THEN {<<"spinner.fail", "Error occurred">>} ELSE {}) \cup {<<"Error", e.msg>>}

\* a handler that leaves the loop
HandlerNext_break == "Exited"

\* main.py:312: continue, back to the top of the loop
HandlerNext == "Idle"

Handler ==
  /\ pc = "Handler"
  /\ shown' = shown \cup HandlerShows(caught, spinner)
  /\ caught' = NoExc
  /\ pc' = HandlerNext
  /\ UNCHANGED <<argv, conversation_history, locals, invoker, inflight, requests, iter,
                 trace, raised, got, hist0, asked, runs, input, spawned>>

Next ==
  \/ ReadArgv \/ ReadQuestion \/ ReadExit \/ ReadHistory \/ ReadEOF \/ ReadInterrupt
  \/ InvokerMissing \/ InvokerSpawn \/ ChildFails \/ ChildExits
  \/ Stage1DisplayFault \/ Stage2Invoke
  \/ ClaudeFails \/ ClaudeReturnsEmpty \/ ClaudeReturns
  \/ Compare \/ HaikuReturns \/ HaikuFails
  \/ Handler

Spec == Init /\ [][Next]_vars

(* ---------------- properties ---------------- *)
Range(seq) == {seq[i] : i \in 1..Len(seq)}
IsPrefix(a, b) == Len(a) <= Len(b) /\ SubSeq(b, 1, Len(a)) = a
Last(seq) == seq[Len(seq)]
BetweenQuestions == pc \in {"Idle", "Exited"}
Stage1Failed == \E f \in raised : f.step = "stage1"
Stage2Failed == \E f \in raised : f.step = "stage2" /\ f.e \in {UpstreamTimeout, UpstreamError}
ErrorShown(e) == <<"Error", e.msg>> \in shown

\* C1: between questions the history holds exactly one entry per question that
\* completed the pipeline, in the order asked, and no step removes, reorders or
\* rewrites an entry already in the history.
C1_HistoryPerSuccess ==
  /\ [](BetweenQuestions => conversation_history = asked)
  /\ [][IsPrefix(conversation_history, conversation_history')]_vars

C1_Witness ==
  /\ pc = "Idle"
  /\ Len(conversation_history) = 2
  /\ conversation_history[1].question # conversation_history[2].question

\* C2: when the first-stage invocation fails the question is not aborted: the
\* second-stage call is issued with the placeholder reasoning, and once that call
\* has returned an answer the history holds an entry for the question whose
\* first-stage result is the placeholder pair.
C2_DegradedStage1Continues ==
  Stage1Failed =>
    /\ pc # "Handler" \/ Stage2Failed \/ Fault("stage2", IndexError) \in raised
    /\ "Stage1Parsed" \in Range(trace) =>
         /\ "Stage2Invoked" \in Range(trace)
         /\ claude_request.question = question
         /\ claude_request.deepseek = ErrReasoning
    /\ got.stage2 # <<>> =>
         /\ Len(conversation_history) = Len(hist0) + 1
         /\ Last(conversation_history) =
              [question |-> question, deepseek |-> Placeholder, claude |-> got.stage2[1]]

C2_Witness ==
  /\ Fault("stage1", IntegrationMissing) \in raised
  /\ "Recorded" \in Range(trace)
  /\ Last(conversation_history).deepseek = Placeholder

\* C3 as stated: after a failed second-stage call the cycle has continued with a
\* placeholder: the agreement evaluation has run and a HistoryEntry is recorded,
\* and the fault is shown.
C3_Original ==
  (pc = "Idle" /\ Stage2Failed) =>
    /\ "Compared" \in Range(trace)
    /\ Len(conversation_history) = Len(hist0) + 1
    /\ \A f \in raised : ErrorShown(f.e)

\* C3 amended: a failed second-stage call ends the question's cycle: nothing is
\* recorded, the agreement evaluation does not run, no call is left in flight,
\* the fault is shown as an error and the loop is back at its top.
C3_Stage2FaultEndsCycle ==
  Stage2Failed =>
    /\ pc \in {"Handler", "Idle"}
    /\ conversation_history = hist0
    /\ "Recorded" \notin Range(trace) /\ "Compared" \notin Range(trace)
    /\ inflight = {}
    /\ pc = "Idle" => \A f \in raised : f.step = "stage2" => ErrorShown(f.e)

C3_Witness ==
  /\ pc = "Idle"
  /\ Fault("stage2", UpstreamTimeout) \in raised
  /\ ErrorShown(UpstreamTimeout)
  /\ Len(hist0) = 1

\* where the fault of each step is rendered
Rendered(f) ==
  CASE f.step = "stage1" -> <<"Error details", f.e.msg>> \in shown
    [] f.step = "comparison" -> <<"Haiku's Comparison", "Comparison failed: " \o f.e.msg>> \in shown
    [] OTHER -> ErrorShown(f.e)

\* C4: a fault at any step never ends the loop: by the time the loop is back at
\* its top every fault of the iteration has been rendered, the history of the
\* earlier questions is intact, and the handler always returns to the top of
\* the loop, where the next question is read from standard input.
C4_FaultsNeverEndLoop ==
  /\ [](raised # {} =>
          /\ pc # "Exited"
          /\ IsPrefix(hist0, conversation_history)
          /\ pc = "Idle" => (argv = <<>> /\ \A f \in raised : Rendered(f)))
  /\ [][pc = "Handler" =>
          pc' = "Idle" /\ conversation_history' = conversation_history]_vars

C4_Witness ==
  /\ pc = "Idle"
  /\ Fault("display", AttributeError) \in raised
  /\ ErrorShown(AttributeError)
  /\ Len(hist0) = 1 /\ conversation_history = hist0

C6_StagesSequential ==
  /\ Cardinality(inflight) <= 1
  /\ "child" \in inflight => got = NoGot
  /\ "claude" \in inflight =>
       /\ got.stage1 # NoResult /\ got.stage2 = <<>>
       /\ claude_request.question = question
       /\ claude_request.deepseek = got.stage1.reasoning.val
  /\ "haiku" \in inflight =>
       /\ got.stage1 # NoResult /\ got.stage2 # <<>>
       /\ haiku_request = [question |-> question, deepseek |-> got.stage1.answer.val,
                           claude |-> got.stage2[1]]

C6_Witness ==
  /\ "haiku" \in inflight
  /\ iter = 2
  /\ Len(hist0) = 1
  /\ hist0[1].claude # got.stage2[1]

\* the invoker has come to its return with the output of a child that exited
\* with status 0
Parsed == pc = "S1Return" /\ returncode = 0

StartAbsent(output) == \A i \in 1..Len(output) : output[i] \notin HasStartMarker
EndAbsent(output) == \A i \in 1..Len(output) : output[i] \notin HasEndMarker

\* C7: for an output that lacks the start or the end sentinel the only fault is
\* the marker-not-found failure, it does not leave the invoker, and the result is
\* the full placeholder pair.
C7_MissingMarker ==
  (Parsed /\ (StartAbsent(stdout) \/ EndAbsent(stdout))) =>
    /\ exc = MarkerNotFound
    /\ {f \in raised : f.step = "stage1"} = {Fault("stage1", MarkerNotFound)}
    /\ caught = NoExc
    /\ ret = Placeholder

C7_Witness ==
  /\ Parsed
  /\ ~StartAbsent(stdout) /\ EndAbsent(stdout)
  /\ \E i \in 1..Len(stdout) : stdout[i] = "ka"
  /\ ret = Placeholder

\* a dict with both required members
ValidPayload(toks) ==
  /\ json_loads(toks).kind = "dict"
  /\ {"answer", "reasoning"} \subseteq DOMAIN json_loads(toks).dict

\* positions <<i, j>> of a start and an end sentinel that enclose a valid payload
Blocks(output) ==
  {b \in (1..Len(output)) \X (1..Len(output)) :
     /\ b[1] < b[2]
     /\ output[b[1]] = "S" /\ output[b[2]] = "E"
     /\ ValidPayload(SubSeq(output, b[1] + 1, b[2] - 1))}

\* C8: for an output that holds both sentinels around a valid payload, among
\* any diagnostic text, the invoker returns the payload's answer and reasoning.
C8_RoundTrip ==
  Parsed =>
    \A b \in Blocks(stdout) :
      LET d == json_loads(SubSeq(stdout, b[1] + 1, b[2] - 1)).dict
      IN  exc = NoExc /\ ret = [answer |-> d["answer"], reasoning |-> d["reasoning"]]

\* the value decoded from the text the code takes for the payload
Decoded(output) ==
  json_loads(Strip(JsonStr(output, Find(output, HasStartMarker), Find(output, HasEndMarker))))

\* C9: when the payload between the sentinels does not decode, or decodes
\* without the answer or the reasoning member, both fields of the result are the
\* placeholders; no result mixes a payload value with a placeholder.
C9_AllOrNothing ==
  Parsed =>
    /\ (ret.answer = Placeholder.answer) <=> (ret.reasoning = Placeholder.reasoning)
    /\ exc # NoExc => ret = Placeholder
    /\ (~StartAbsent(stdout) /\ ~EndAbsent(stdout) /\ ~ValidPayload(Strip(JsonStr(stdout,
           Find(stdout, HasStartMarker), Find(stdout, HasEndMarker)))))
         => (ret = Placeholder /\ exc.type \in {"JSONDecodeError", "KeyError", "TypeError"})

C9_Witness ==
  /\ Parsed
  /\ ~StartAbsent(stdout) /\ ~EndAbsent(stdout)
  /\ Decoded(stdout).kind = "dict"
  /\ DOMAIN Decoded(stdout).dict = {"answer"}
  /\ exc = KeyError("'reasoning'")
  /\ ret = Placeholder

\* C10: every first-stage result is a pair of texts: non-empty on success, the
\* placeholders on failure, never a null or a value that is not text.
C10_ReasoningResultInvariant ==
  pc = "S1Return" =>
    /\ ret.answer.type = "str" /\ ret.reasoning.type = "str"
    /\ exc = NoExc => (ret.answer.val # "" /\ ret.reasoning.val # "")
    /\ exc # NoExc => ret = Placeholder

\* the end-to-end scenario of C11 has run to the end of its iteration
C11_Scenario ==
  /\ pc = "Idle" /\ "Compared" \in Range(trace)
  /\ question = "What is 2+2?"
  /\ got.stage1.answer = PyStr("4")
  /\ got.stage2 = <<"The answer is 4.">>

Diverged == <<"Warning", "Models show significant divergence!">> \in shown

\* C11 as stated: with first-stage answer "4" and second-stage answer
\* "The answer is 4." the lexical agreement verdict is true and no divergence
\* warning is shown.
C11_Original ==
  C11_Scenario => (check_agreement("4", "The answer is 4.") /\ ~Diverged)

\* C11 amended: in that scenario the first sentences "4" and "the answer is 4"
\* have similarity ratio 12 of 100, not above the threshold 70, so the verdict is
\* false and the divergence warning is shown.
C11_LowRatioWarns ==
  C11_Scenario =>
    /\ FuzzRatio(FirstSentence(Lower(Chars("4"))),
                 FirstSentence(Lower(Chars("The answer is 4.")))) = 12
    /\ ~check_agreement(got.stage1.answer.val, got.stage2[1])
    /\ Diverged

C11_Witness ==
  /\ C11_Scenario
  /\ Diverged
  /\ Last(conversation_history) =
       [question |-> "What is 2+2?",
        deepseek |-> [answer |-> PyStr("4"), reasoning |-> PyStr("Addition of two and two.")],
        claude |-> "The answer is 4."]

ComparisonFaults == {f \in raised : f.step = "comparison"}

\* C12: a fault of the comparison call never raises into main: it becomes the
\* displayed narrative "Comparison failed: ...", the lexical agreement check
\* still runs (the warning is shown exactly when the answers disagree) and the
\* handler is not entered.
C12_ComparisonNeverRaises ==
  /\ pc = "Handler" => caught \notin {f.e : f \in ComparisonFaults}
  /\ \A f \in ComparisonFaults :
       /\ pc = "Idle" /\ caught = NoExc
       /\ analysis = "Comparison failed: " \o f.e.msg
       /\ <<"Haiku's Comparison", analysis>> \in shown
       /\ \A d \in shown : d[1] # "Error"
       /\ Diverged <=> ~check_agreement(got.stage1.answer.val, got.stage2[1])
       /\ Len(asked) = Len(conversation_history)

C12_Witness ==
  /\ Fault("comparison", UpstreamTimeout) \in raised
  /\ pc = "Idle"
  /\ ~Diverged
  /\ <<"Haiku's Comparison", "Comparison failed: Request timed out.">> \in shown


SameInputs(a, b) ==
  a.question = b.question /\ a.stage1 = b.stage1 /\ a.stage2 = b.stage2
\* C13: two runs of the pipeline in one session with the same question, the same
\* first-stage result and the same second-stage response send the same second-stage
\* request and the same comparison request and record entries with the same content,
\* whatever the history held when each run started; the history is the sequence of
\* the recorded entries.
C13_HistoryNeverInfluences ==
  /\ conversation_history = [i \in 1..Len(runs) |-> runs[i].entry]
  /\ \A i, j \in 1..Len(runs) :
       SameInputs(runs[i], runs[j]) =>
         /\ runs[i].request = runs[j].request
         /\ runs[i].entry = runs[j].entry
         /\ (runs[i].compare # NoRequest /\ runs[j].compare # NoRequest)
              => runs[i].compare = runs[j].compare
C13_Witness ==
  /\ pc = "Idle" /\ Len(runs) = 2
  /\ SameInputs(runs[1], runs[2])
  /\ runs[2].compare # NoRequest
  /\ conversation_history[1] = conversation_history[2]

\* C14: an iteration whose question is the empty text ends without a first-stage
\* invocation (no child process, no pipeline state entered), without a
\* second-stage or comparison call and without a new HistoryEntry.
C14_EmptyQuestionAborts ==
  input.line = "" =>
    /\ trace = <<>>
    /\ spawned = 0
    /\ inflight = {}
    /\ conversation_history = hist0

HistoryRead ==
  input.from = "stdin" /\ input.line \in Inputs /\ Lower(Chars(input.line)) = Chars("history")
SectionOf(i) ==
  <<"Session " \o ToString(i),
    "Question: " \o hist0[i].question \o "\nDeepSeek Answer: " \o
    hist0[i].deepseek.answer.val \o "\nClaude Answer: " \o hist0[i].claude>>
AfterHistoryRead ==
  HistoryRead =>
    /\ pc = "Idle"
    /\ shown = {<<"Conversation History", "">>} \cup {SectionOf(i) : i \in 1..Len(hist0)}
    /\ conversation_history = hist0
    /\ trace = <<>> /\ spawned = 0 /\ inflight = {} /\ raised = {}
\* C15: an iteration that read the line history from standard input displays the
\* header and one section per entry of the history, with the entry's question and
\* both answers, and nothing else; it is back at the prompt with the history as it
\* was, no child process spawned, no provider call issued and no fault raised.
C15_HistoryCommand ==
  /\ []AfterHistoryRead
  /\ [][(HistoryRead)' /\ iter' = iter + 1 =>
          UNCHANGED <<conversation_history, requests, inflight, locals, runs>>]_vars
C15_Witness ==
  /\ HistoryRead /\ pc = "Idle"
  /\ Len(conversation_history) = 1
  /\ <<"Session 1",
       "Question: What is 2+2?\nDeepSeek Answer: 4\nClaude Answer: The answer is 4.">> \in shown

ExitRead ==
  /\ input.from = "stdin" /\ input.line \in Inputs
  /\ Lower(Chars(input.line)) \in {Chars("exit"), Chars("quit")}
\* C16: an iteration that read exit or quit from standard input has left the loop
\* with the history as it was, no child process spawned and no provider call
\* issued, and nothing happens after it; a line is read, and so the loop is left,
\* only at the prompt, where no pipeline is in progress and no call is in
\* flight: between the start of a pipeline and its end no input is looked at.
C16_ExitOnlyBetweenQuestions ==
  /\ [](ExitRead => /\ pc = "Exited"
                    /\ conversation_history = hist0
                    /\ trace = <<>> /\ spawned = 0 /\ inflight = {} /\ raised = {})
  /\ [][pc # "Exited"]_vars
  /\ [][input' # input \/ pc' = "Exited" => pc = "Idle" /\ inflight = {}]_vars
  /\ [][pc' = "Exited" => UNCHANGED <<conversation_history, requests, inflight>>]_vars
C16_Witness ==
  /\ pc = "Exited" /\ input = [from |-> "stdin", line |-> "QUIT"]
  /\ Len(conversation_history) = 1 /\ <<"Goodbye", "">> \in shown

ChildInFlight == "child" \in inflight
\* C17: a call of the first-stage invoker launches at most one child process; the
\* child is in flight exactly while the call waits for it, so the call has the
\* child's exit status and output when it returns; a call that fails because the
\* compiled module is absent has launched no process.
C17_OneChildPerCall ==
  /\ [](spawned <= 1)
  /\ [](ChildInFlight <=> pc = "ChildRunning")
  /\ [](pc = "S1Return" =>
          /\ ~ChildInFlight
          /\ IF exc = IntegrationMissing
             THEN spawned = 0 /\ returncode = -1 /\ ret = Placeholder
             ELSE spawned = 1 /\ returncode \in {0, 1})
  /\ [](Fault("stage1", IntegrationMissing) \in raised => spawned = 0)
  /\ [][spawned' > spawned => pc = "Stage1Invoked" /\ pc' = "ChildRunning"]_vars
C17_Witness ==
  /\ pc = "S1Return" /\ exc = IntegrationMissing
  /\ spawned = 0 /\ inflight = {}
  /\ <<"Error details", IntegrationMissing.msg>> \in shown

EntryAdded == conversation_history # hist0
\* the second-stage call of the current iteration came back with a response,
\* with or without a content block
ResponseReturned == got.stage2 # <<>> \/ Fault("stage2", IndexError) \in raised
ThisEntry ==
  HistoryEntry(question, got.stage1.answer, got.stage1.reasoning, got.stage2[1])

\* C18 as stated: the current question has a HistoryEntry exactly when its
\* second-stage call returned a response.
C18_Original == EntryAdded <=> ResponseReturned

\* C18 amended: the current question has a HistoryEntry exactly when its
\* second-stage call returned a response whose first content block gave the
\* answer text, and the entry is then the last of the history and holds the
\* question, the first-stage result and that text; a response without a content
\* block and a fault of the second-stage call leave the history as it was; a fault
\* of the comparison call leaves the entry in the history; no step removes or
\* changes an entry.
C18_EntryIffAnswerText ==
  /\ [](EntryAdded <=> got.stage2 # <<>>)
  /\ [](EntryAdded => conversation_history = Append(hist0, ThisEntry))
  /\ []((\E f \in raised : f.step = "stage2") => conversation_history = hist0)
  /\ []((\E f \in raised : f.step = "comparison") => EntryAdded)
  /\ [][IsPrefix(conversation_history, conversation_history')]_vars
C18_Witness ==
  /\ pc = "Idle" /\ Fault("stage2", IndexError) \in raised
  /\ Len(hist0) = 1 /\ conversation_history = hist0
  /\ ErrorShown(IndexError)

FromArgv == input.from = "argv"
\* C19: a startup argument is the question of the first iteration and of no
\* other: the first iteration of a session started with an argument takes the
\* argument as its question and enters the pipeline with it, whatever the text
\* (exit included), and clears it; every later iteration, the one after a fault
\* on that first question included, takes its line from standard input.
C19_ArgumentOnceUnrecognised ==
  /\ [](FromArgv => /\ iter = 1
                    /\ question = input.line
                    /\ trace # <<>> /\ trace[1] = "Stage1Invoked"
                    /\ pc # "Exited")
  /\ [](iter >= 1 => argv = <<>>)
  /\ [](iter >= 2 => input.from = "stdin")
  /\ [][Len(argv) > 0 /\ iter' = iter + 1 =>
          input' = [from |-> "argv", line |-> Join(argv)] /\ pc' = "Stage1Invoked"]_vars
C19_Witness ==
  /\ pc = "Idle" /\ input = [from |-> "argv", line |-> "exit"]
  /\ Len(conversation_history) = 1 /\ conversation_history[1].question = "exit"

LoopEnded == pc \in {"Exited", "Interrupted"}

====
